---- MODULE Spec2Model ----
(***************************************************************************)
(* Boat-vision: the upload queue of WorkflowUploader (client) and the      *)
(* three-stage POST /api/process endpoint (server).                        *)
(*                                                                         *)
(* Client state is the React state of WorkflowUploader; one action is one  *)
(* event handler, or one synchronous segment of the async processQueue     *)
(* between two awaits.  Server state is the set of exchanges in flight;    *)
(* one action is one segment of POST between two awaits.                   *)
(***************************************************************************)
EXTENDS Integers, Sequences, FiniteSets, TLC

VARIABLES
  queue,        \* useState<QueueItem[]>: the ordered items
  style,        \* location, lens, dynamic, includeInteriors (four useState cells)
  isProcessing, \* useState(false)
  passes,       \* the running invocations of processQueue, each with its closure
  net,          \* exchanges with /api/process: request, server progress, response
  apiKey,       \* process.env.OPENAI_API_KEY is set
  revoked,      \* preview URLs on which URL.revokeObjectURL was called
  nextId,       \* the next fresh item id (crypto.randomUUID)
  trail,        \* per item id: the statuses assigned to it, in order
  called,       \* the last event was a call of processQueue
  styleEdits    \* the number of style changes so far

vars == <<queue, style, isProcessing, passes, net, apiKey, revoked, nextId,
          trail, called, styleEdits>>

----------------------------------------------------------------------------
\* Bounds of the model.

MaxItems == 2
MaxFiles == 2
MaxStyleEdits == 1
MaxTextLen == 4

----------------------------------------------------------------------------
\* Small helpers.

Has(obj, k) == k \in DOMAIN obj

\* {...a, ...b}: the members of b, then those of a that b does not have.
Spread(a, b) == [k \in DOMAIN a \cup DOMAIN b |-> IF k \in DOMAIN b THEN b[k] ELSE a[k]]

EmptyObj == <<>>

----------------------------------------------------------------------------
\* Client: types and constants of WorkflowUploader.

ProcessingStatus ==
  {"idle", "ready", "analyzing", "generating", "verifying", "complete", "error"}

lensStyles == {"wide-immersive", "action-zoom", "luxury-showcase"}

shotDynamics == {"running", "anchored", "harbor"}

defaultLocationExamples == {"Seattle, WA (Lake Union)"}

\* The MIME types handleFiles keeps.
SupportedTypes ==
  {"image/jpeg", "image/png", "image/webp", "image/heic", "image/heif"}

\* The declared types of the files a user drops in this model.
FileTypes == {"image/jpeg", "application/pdf"}

\* The values of the four style cells after construction.
InitialStyle ==
  [location |-> "", lens |-> "wide-immersive", dynamic |-> "running",
   includeInteriors |-> TRUE]

\* Texts are sequences of tokens; a template literal concatenates them.
LogQueued == <<"Queued for processing">>
LogStart == <<"Starting processing pipeline">>
LogExtract == <<"Extracting vessel details and trailer remnants">>
LogRender == <<"Rendering cinematic water shot">>
LogVerify == <<"Double-checking trailer removal and composition">>
LogFailed(text) == <<"Failed: ">> \o text
LogCaught(message) == <<"X ">> \o message

\* The message of the TypeError a failed fetch rejects with.
FetchErrorMessage == <<"Failed to fetch">>

readyForProcessing(q) ==
  Len(q) > 0 /\ \E i \in DOMAIN q : q[i].status \in {"idle", "ready"}

Ids(q) == {q[i].id : i \in DOMAIN q}

\* A cleanup that revokes nothing.
PreviewUrls_None(q) == {}

\* The effect cleanup of the render that showed q: every preview URL of q.
PreviewUrls(q) == {q[i].previewUrl : i \in DOMAIN q}

----------------------------------------------------------------------------
\* Client: the queue operations (functional setQueue updaters).

\* One item of handleFiles' mapped list.
NewItem(id, type) ==
  [id |-> id, file |-> [type |-> type], previewUrl |-> id, status |-> "ready",
   logs |-> <<LogQueued>>]

\* A filter that lets every file through.
supported_KeepsAll(files) == files

\* Array.from(files).filter(...): the files whose type is on the allow-list.
supported(files) == SelectSeq(files, LAMBDA t : t \in SupportedTypes)

mapped(files, first) ==
  LET keep == supported(files)
  IN [i \in 1..Len(keep) |-> NewItem(first + i - 1, keep[i])]

\* prev.filter((item) => item.id !== id)
RemoveFrom(q, id) == SelectSeq(q, LAMBDA item : item.id # id)

\* updateQueueItem's updater: merge, with logs appended rather than replaced.
updateQueueItem(q, id, updates) ==
  [i \in DOMAIN q |->
     IF q[i].id # id THEN q[i]
     ELSE LET merged == Spread(q[i], updates)
          IN IF Has(updates, "logs")
               THEN [merged EXCEPT !.logs = q[i].logs \o updates.logs]
               ELSE merged]

\* A sequence of updates [id, updates] applied in order.
RECURSIVE ApplyUpdates(_, _)
ApplyUpdates(q, ups) ==
  IF ups = <<>> THEN q
  ELSE ApplyUpdates(updateQueueItem(q, Head(ups).id, Head(ups).updates), Tail(ups))

\* The statuses the updates assign to the items of q, appended to the trail.
RECURSIVE TrailUpdates(_, _, _)
TrailUpdates(tr, q, ups) ==
  IF ups = <<>> THEN tr
  ELSE LET u == Head(ups)
           next == IF Has(u.updates, "status") /\ u.id \in Ids(q)
                     THEN [tr EXCEPT ![u.id] = Append(@, u.updates.status)]
                     ELSE tr
       IN TrailUpdates(next, q, Tail(ups))

Upd(id, updates) == [id |-> id, updates |-> updates]

\* appendLog(id, entry): the update { logs: [entry] }.
appendLog(id, entry) == Upd(id, [logs |-> <<entry>>])

----------------------------------------------------------------------------
\* Client: processQueue.  A pass is one invocation that got past the guard; its
\* closure holds the queue and the style of the render it was created in.

\* Variants of the guard: one that forgets the running pass, one that forgets
\* to look for an idle/ready item.
CanStart_IgnoresRunning(ready, processing) == ready

CanStart_IgnoresReady(ready, processing) == ~processing

\* The guard of line 143, negated.
CanStart(ready, processing) == ready /\ ~processing

\* A loop that skips nothing.
Skipped_Never(item) == FALSE

\* The loop's `continue` at its top.
Skipped(item) == item.status = "complete"

\* String(includeInteriors)
BoolString(b) == IF b THEN "true" ELSE "false"

\* A FormData built from the style cells of the moment.
FormOf_ReadsCurrent(item, closure, current) ==
  [image |-> item.file, location |-> current.location, lens |-> current.lens,
   dynamic |-> current.dynamic,
   includeInteriors |-> BoolString(current.includeInteriors)]

\* The FormData of an item: `closure` is the style the pass was created with,
\* `current` the style cells at the moment the item begins.
FormOf(item, closure, current) ==
  [image |-> item.file, location |-> closure.location, lens |-> closure.lens,
   dynamic |-> closure.dynamic,
   includeInteriors |-> BoolString(closure.includeInteriors)]

\* A loop that a failed item ends (`break` for `continue`).
ResumeAt_BreakOnFailure(snap, idx, failed) == IF failed THEN Len(snap) + 1 ELSE idx + 1

\* The index the loop goes to after the item at idx (`continue`, or the end
\* of the body): failure or not, the next one.
ResumeAt(snap, idx, failed) == idx + 1

\* The first index from `from` on whose item the loop does not skip; 0 if none.
NextIndex(snap, from) ==
  LET rest == {j \in from..Len(snap) : ~Skipped(snap[j])}
  IN IF rest = {} THEN 0 ELSE CHOOSE j \in rest : \A k \in rest : j <= k

StartUpdates(id) ==
  << appendLog(id, LogStart),
     Upd(id, [status |-> "analyzing"]),
     appendLog(id, LogExtract) >>

\* !response.ok
FailedUpdates(id, text) ==
  << appendLog(id, LogFailed(text)),
     Upd(id, [status |-> "error", error |-> text]) >>

\* The ProcessedResult built from the payload; insights ?? {}.
ResultOf(payload) ==
  [finalImage |-> payload.generatedImage, prompt |-> payload.prompt,
   summary |-> payload.summary, qualityReport |-> payload.qualityReport,
   insights |-> IF Has(payload, "insights") THEN payload.insights ELSE EmptyObj]

CompleteUpdates(id, payload) ==
  << Upd(id, [status |-> "generating"]),
     appendLog(id, LogRender),
     Upd(id, [status |-> "verifying"]),
     appendLog(id, LogVerify),
     Upd(id, [status |-> "complete", result |-> ResultOf(payload)]) >>

\* catch (error)
CaughtUpdates(id, message) ==
  << appendLog(id, LogCaught(message)),
     Upd(id, [status |-> "error", error |-> message]) >>

\* A request as fetch hands it to the endpoint.
NewExchange(no, id, form) ==
  [pass |-> no, id |-> id, form |-> form, phase |-> "sent", calls |-> <<>>,
   stage1 |-> [kind |-> "none"], analysis |-> EmptyObj, prompt |-> <<>>, finalImage |-> <<>>,
   response |-> [status |-> 0, body |-> EmptyObj]]

\* The loop from index `from` up to the next await (the fetch of the next item
\* it does not skip) or to its end, on the queue q and trail tr.
Loop(p, q, tr, from) ==
  LET j == NextIndex(p.snap, from)
  IN IF j = 0
       THEN [queue |-> q, trail |-> tr, done |-> TRUE, pass |-> p, sent |-> {},
             wrote |-> from > 1]
       ELSE LET item == p.snap[j]
                ups == StartUpdates(item.id)
                form == FormOf(item, p.style, style)
            IN [queue |-> ApplyUpdates(q, ups),
                trail |-> TrailUpdates(tr, q, ups),
                done |-> FALSE, wrote |-> TRUE,
                pass |-> [p EXCEPT !.idx = j,
                            !.requested = Append(@, [id |-> item.id, form |-> form,
                                                     ui |-> style])],
                sent |-> {NewExchange(p.no, item.id, form)}]

\* The state after a segment of pass p that ended as r says.
Settle(p, r, x) ==
  /\ queue' = r.queue
  /\ trail' = r.trail
  /\ revoked' = IF r.wrote THEN revoked \cup PreviewUrls(queue) ELSE revoked
  /\ passes' = (passes \ {p}) \cup (IF r.done THEN {} ELSE {r.pass})
  /\ net' = (net \ x) \cup r.sent
  /\ isProcessing' = IF r.done THEN FALSE ELSE IF p.idx = 0 THEN TRUE ELSE isProcessing

\* The number of a new pass: passes are told apart by it.
FreshPass == IF passes = {} THEN 1
             ELSE 1 + (CHOOSE n \in {p.no : p \in passes} : \A p \in passes : p.no <= n)

\* onClick={processQueue}, or any other call of it.
ProcessQueue ==
  IF CanStart(readyForProcessing(queue), isProcessing)
    THEN LET p == [no |-> FreshPass, snap |-> queue, style |-> style,
                   idx |-> 0, requested |-> <<>>]
         IN /\ Settle(p, Loop(p, queue, trail, 1), {})
            /\ called' = TRUE
            /\ UNCHANGED <<style, apiKey, nextId, styleEdits>>
    ELSE /\ called' = TRUE
         /\ UNCHANGED <<queue, style, isProcessing, passes, net, apiKey, revoked,
                        nextId, trail, styleEdits>>

ok(response) == response.status >= 200 /\ response.status <= 299

----------------------------------------------------------------------------
\* Server: the text of the stage-1 model and JSON.parse.
\*
\* A text is a sequence of tokens: "{", "}", ",", prose ("x"), a member with
\* a scalar value ("key":value, one token per member below), or "ins:", the
\* key "insights": that an object has to follow.

MemberKey ==
  [rejT |-> "shouldReject", rejF |-> "shouldReject", reason |-> "rejectionReason",
   sum |-> "summary", boat |-> "boatOverview", focal |-> "visualFocalPoints",
   loc |-> "locationAdaptation"]

MemberValue ==
  [rejT |-> TRUE, rejF |-> FALSE, reason |-> "trailer visible",
   sum |-> "bowrider on a trailer", boat |-> "red bowrider",
   focal |-> "chrome rails", loc |-> "teal lake water"]

IsMember(tok) == tok \in DOMAIN MemberKey

Tokens == {"{", "}", ",", "x", "ins:"} \cup DOMAIN MemberKey

ParseFail == [ok |-> FALSE, val |-> EmptyObj, next |-> 0]

\* JSON.parse's object grammar on tokens: ParseObject reads an object that
\* starts at i, ParseMembers the members from i on into acc; `next` is the
\* position after what was read.  A repeated key keeps its last value.
RECURSIVE ParseObject(_, _), ParseMembers(_, _, _)
ParseObject(toks, i) ==
  IF i > Len(toks) \/ toks[i] # "{" THEN ParseFail
  ELSE IF i + 1 <= Len(toks) /\ toks[i + 1] = "}"
         THEN [ok |-> TRUE, val |-> EmptyObj, next |-> i + 2]
         ELSE ParseMembers(toks, i + 1, EmptyObj)

ParseMembers(toks, i, acc) ==
  LET one ==
        IF i > Len(toks) THEN ParseFail
        ELSE IF IsMember(toks[i])
          THEN [ok |-> TRUE, next |-> i + 1,
                val |-> Spread(acc, [k \in {MemberKey[toks[i]]} |-> MemberValue[toks[i]]])]
        ELSE IF toks[i] = "ins:"
          THEN LET inner == ParseObject(toks, i + 1)
               IN IF inner.ok
                    THEN [ok |-> TRUE, next |-> inner.next,
                          val |-> Spread(acc, [insights |-> inner.val])]
                    ELSE ParseFail
        ELSE ParseFail
  IN IF ~one.ok \/ one.next > Len(toks) THEN ParseFail
     ELSE IF toks[one.next] = "}" THEN [one EXCEPT !.next = @ + 1]
     ELSE IF toks[one.next] = "," THEN ParseMembers(toks, one.next + 1, one.val)
     ELSE ParseFail

\* JSON.parse(text): the whole text has to be one object, or it throws.
JsonParse(toks) ==
  LET r == ParseObject(toks, 1)
  IN IF r.ok /\ r.next = Len(toks) + 1
       THEN [kind |-> "value", val |-> r.val]
       ELSE [kind |-> "throw", val |-> EmptyObj]

\* text.indexOf(tok) and text.lastIndexOf(tok), positions from 1; 0 is -1.
IndexOf(text, tok) ==
  LET at == {i \in DOMAIN text : text[i] = tok}
  IN IF at = {} THEN 0 ELSE CHOOSE i \in at : \A j \in at : i <= j

LastIndexOf(text, tok) ==
  LET at == {i \in DOMAIN text : text[i] = tok}
  IN IF at = {} THEN 0 ELSE CHOOSE i \in at : \A j \in at : i >= j

\* text.slice(start, end + 1); empty when the end is before the start.
Slice(text, start, end) == SubSeq(text, start, end)

\* A cleanJson without its try/catch: what JSON.parse throws goes through.
cleanJson_NoCatch(text) ==
  LET start == IndexOf(text, "{")
      end == LastIndexOf(text, "}")
  IN IF start = 0 \/ end = 0 THEN [kind |-> "null", val |-> EmptyObj]
     ELSE JsonParse(Slice(text, start, end))

\* cleanJson: "value" with the parsed object, or "null".
cleanJson(text) ==
  LET start == IndexOf(text, "{")
      end == LastIndexOf(text, "}")
  IN IF start = 0 \/ end = 0 THEN [kind |-> "null", val |-> EmptyObj]
     ELSE LET parsed == JsonParse(Slice(text, start, end))
          IN IF parsed.kind = "throw" THEN [kind |-> "null", val |-> EmptyObj]
             ELSE parsed

\* The analysis analyzeSourceImage returns when nothing parses.
DefaultAnalysis ==
  [shouldReject |-> FALSE,
   summary |-> "Unable to parse structured inspection; proceeding with default transformation.",
   insights |-> EmptyObj]

\* extractMessageText: the text of the reply's first output_text block, or "".
extractMessageText(reply) == IF Has(reply, "text") THEN reply.text ELSE <<>>

\* analyzeSourceImage on the outcome of client.responses.create: a thrown
\* failure goes through to the caller.
analyzeSourceImage(reply) ==
  IF reply.kind = "throw" THEN [kind |-> "throw", val |-> EmptyObj]
  ELSE LET parsed == cleanJson(extractMessageText(reply))
       IN IF parsed.kind = "throw" THEN parsed
          ELSE IF parsed.kind = "null" THEN [kind |-> "value", val |-> DefaultAnalysis]
          ELSE parsed

----------------------------------------------------------------------------
\* Server: POST /api/process.

lensLexicon ==
  [w \in lensStyles |->
     CASE w = "wide-immersive" ->
            "ultra-wide 18mm lens, low horizon, cinematic atmosphere, immersive scale"
       [] w = "action-zoom" ->
            "high-speed telephoto capture, sweeping rooster tail, tack sharp hull detail"
       [] w = "luxury-showcase" ->
            "mid focal length lifestyle showcase, golden hour polish, upscale staging"]

dynamicDirectives ==
  [d \in shotDynamics |->
     CASE d = "running" ->
            "capture hull-on-plane, spray arcs, strong diagonal energy, sense of motion"
       [] d = "anchored" ->
            "quiet anchorage, glassy reflections, relaxed lifestyle moment with tasteful props"
       [] d = "harbor" ->
            "arrival sequence past iconic marina landmarks, soft dusk lighting, warm hospitality"]

\* Names every object literal inherits from Object.prototype: lexicon[name] is
\* the inherited member, not undefined.
InheritedKeys == {"toString", "constructor"}

Inherited(key) == "[inherited " \o key \o "]"

\* lexicon[key] ?? lexicon[fallback]
Directive(lexicon, key, fallback) ==
  IF key \in DOMAIN lexicon THEN lexicon[key]
  ELSE IF key \in InheritedKeys THEN Inherited(key)
  ELSE lexicon[fallback]

\* (form.get(name) as string) || fallback: a missing or empty field falls back.
FieldOr(form, name, fallback) ==
  IF Has(form, name) /\ form[name] # "" THEN form[name] ELSE fallback

\* form.get("includeInteriors") === "true"
includeInteriorsOf(form) ==
  Has(form, "includeInteriors") /\ form.includeInteriors = "true"

reinforcement(includeInteriors) ==
  << "No trailers, parking lots, or dealership backgrounds.",
     "Boat dominates the frame with authentic reflections and crisp wake physics.",
     "Match hull lines, colors, and trim accents from the source description.",
     IF includeInteriors
       THEN "Deliver a secondary interior vantage with luxurious wide-angle cabin framing."
       ELSE "Focus solely on exterior hero shot." >>

\* insights.name ?? fallback
InsightOr(insights, name, fallback) ==
  IF Has(insights, name) THEN insights[name] ELSE fallback

FallbackBoat == "modern powerboat."
FallbackFocal == "sleek hull, helm, passengers if present."
FallbackLocal == "match regional water coloration and skyline."

\* The prompt of lines 203-213.  Reading a member of analysis.insights throws a
\* TypeError when the analysis has no insights.
BuildPrompt(form, analysis) ==
  IF ~Has(analysis, "insights") THEN [kind |-> "throw", val |-> <<>>]
  ELSE
    [kind |-> "value",
     val |->
       << "Transform this vessel into a premium marketing render shot on the water.",
          "Locale: ", FieldOr(form, "location", "Local waterways"), ".",
          "Lens profile: ",
          Directive(lensLexicon, FieldOr(form, "lens", "wide-immersive"), "wide-immersive"),
          ".",
          "Shot dynamic: ",
          Directive(dynamicDirectives, FieldOr(form, "dynamic", "running"), "running"),
          ".",
          "Boat summary: ", InsightOr(analysis.insights, "boatOverview", FallbackBoat),
          "Key focal points: ",
          InsightOr(analysis.insights, "visualFocalPoints", FallbackFocal),
          "Local cues: ",
          InsightOr(analysis.insights, "locationAdaptation", FallbackLocal) >>
       \o reinforcement(includeInteriorsOf(form))
       \o << "Hyper-realistic photographic lighting, zero distortion, glossy magazine quality." >>]

\* NextResponse.json(body, {status}).
JsonResponse(status, body) == [status |-> status, kind |-> "json", body |-> body]

\* What the framework answers when the handler throws: a bare 500.
UnhandledResponse ==
  [status |-> 500, kind |-> "plain", body |-> [text |-> "Internal Server Error"]]

\* A 422 that says nothing of the reason.
RejectedBody_NoReason(analysis) == [error |-> "Source image rejected"]

\* The body of the 422: a reason that is undefined is left out of the JSON.
RejectedBody(analysis) ==
  IF Has(analysis, "rejectionReason")
    THEN [error |-> "Source image rejected", reason |-> analysis.rejectionReason]
    ELSE [error |-> "Source image rejected"]

\* analysis.summary ?? ...
SummaryOf(analysis) ==
  IF Has(analysis, "summary") THEN analysis.summary
  ELSE "Marine transformation and trailer cleanup completed successfully."

Truthy(obj, name) == Has(obj, name) /\ obj[name] = TRUE

\* JSON.stringify of an error body, as response.text() returns it.
ResponseText(response) ==
  IF response.kind = "plain" THEN <<response.body.text>>
  ELSE <<"{", "error:", response.body.error>>
       \o (IF Has(response.body, "reason")
             THEN <<",", "reason:", response.body.reason>> ELSE <<>>)
       \o <<"}">>

Respond(x, response) == [x EXCEPT !.phase = "responded", !.response = response]

\* POST from its start to the await of generateShot, with `reply` the outcome
\* of the stage-1 call if it comes to that.
PostAnalyze(x, key, reply) ==
  IF ~key THEN Respond(x, JsonResponse(500, [error |-> "OPENAI_API_KEY missing"]))
  ELSE IF ~Has(x.form, "image") THEN Respond(x, JsonResponse(400, [error |-> "Missing upload"]))
  ELSE
    LET asked == [x EXCEPT !.calls = Append(@, "analyze"), !.stage1 = reply]
        got == analyzeSourceImage(reply)
    IN IF got.kind = "throw" THEN Respond(asked, UnhandledResponse)
       ELSE IF Truthy(got.val, "shouldReject")
         THEN Respond([asked EXCEPT !.analysis = got.val],
                      JsonResponse(422, RejectedBody(got.val)))
       ELSE LET prompt == BuildPrompt(x.form, got.val)
            IN IF prompt.kind = "throw"
                 THEN Respond([asked EXCEPT !.analysis = got.val], UnhandledResponse)
                 ELSE [asked EXCEPT !.analysis = got.val, !.prompt = prompt.val,
                                     !.calls = Append(@, "generate"),
                                     !.phase = "generating"]

\* generateShot's return, then up to the await of verifyComposite.
PostGenerate(x, reply) ==
  IF reply.kind = "throw" \/ ~Has(reply, "b64_json") THEN Respond(x, UnhandledResponse)
  ELSE [x EXCEPT !.finalImage = <<"data:image/png;base64,", reply.b64_json>>,
                 !.calls = Append(@, "verify"), !.phase = "verifying"]

\* verifyComposite's return, then the 200.
PostVerify(x, reply) ==
  IF reply.kind = "throw" THEN Respond(x, UnhandledResponse)
  ELSE Respond(x, JsonResponse(200,
         [generatedImage |-> x.finalImage, prompt |-> x.prompt,
          summary |-> SummaryOf(x.analysis),
          qualityReport |-> extractMessageText(reply),
          insights |-> x.analysis.insights]))

----------------------------------------------------------------------------
\* The external models' replies and the inputs of the model.

\* Stage-1 texts the integrated model draws from: the nested object the
\* endpoint reads, the flat object the instruction text asks for, a rejection
\* wrapped in prose, and prose alone.
NestedText == <<"{", "rejF", ",", "sum", ",", "ins:", "{", "boat", ",", "loc", "}", "}">>
FlatText == <<"{", "rejF", ",", "sum", ",", "boat", ",", "focal", ",", "loc", "}">>
RejectText == <<"x", "{", "rejT", ",", "reason", ",", "sum", "}", "x">>
ProseText == <<"x", "x">>

CuratedTexts == {NestedText, FlatText, RejectText, ProseText}

AnalysisReplies(texts) ==
  {[kind |-> "throw"], [kind |-> "ok"]} \cup {[kind |-> "ok", text |-> t] : t \in texts}

ImageReplies ==
  {[kind |-> "throw"], [kind |-> "ok"], [kind |-> "ok", b64_json |-> "QUJD"]}

VerifyReplies ==
  {[kind |-> "throw"], [kind |-> "ok", text |-> <<"No trailer fragments.">>]}

Locations == {""} \cup defaultLocationExamples

\* event.target.files or dataTransfer.files: lists of at most MaxFiles files.
FileLists == UNION {[1..n -> FileTypes] : n \in 0..MaxFiles}

\* Every text of at most MaxTextLen tokens of TextAlphabet.
TextAlphabet == {"{", "}", ",", "x", "rejT", "boat", "ins:"}

AllTexts == UNION {[1..n -> TextAlphabet] : n \in 0..MaxTextLen}

\* The form the uploader sends for a JPEG with the style untouched.
DefaultForm == FormOf([file |-> [type |-> "image/jpeg"]], InitialStyle, InitialStyle)

\* Forms a caller of the endpoint can post: each field as the uploader sends
\* it, with a value of its own, or left out.
Absent == "(absent)"

DirectForms ==
  LET texts == [location : Locations \cup {Absent},
                lens : lensStyles \cup {"fisheye", "toString", Absent},
                dynamic : shotDynamics \cup {"drift", "constructor", Absent},
                includeInteriors : {"true", "false", Absent}]
      Given(form) == [k \in {f \in DOMAIN form : form[f] # Absent} |-> form[k]]
  IN {Given(form) : form \in texts}
     \cup {Spread(Given(form), [image |-> [type |-> "image/jpeg"]]) : form \in texts}

\* The stage-1 texts tried on a posted form: all of them on the default form,
\* the curated ones on the others.
TextsFor(form) ==
  IF form = DefaultForm THEN AllTexts \cup CuratedTexts ELSE CuratedTexts

----------------------------------------------------------------------------
\* Server actions: one segment of POST each.

\* The stage-1 call of exchange x answers with a text of `texts`, or fails.
SrvAnalyzeWith(x, texts) ==
  /\ x.phase = "sent"
  /\ \E reply \in AnalysisReplies(texts) :
       net' = (net \ {x}) \cup {PostAnalyze(x, apiKey, reply)}
  /\ called' = FALSE
  /\ UNCHANGED <<queue, style, isProcessing, passes, revoked, nextId, trail, styleEdits, apiKey>>

SrvAnalyze == \E x \in net : SrvAnalyzeWith(x, CuratedTexts)

SrvGenerate ==
  /\ \E x \in net :
       /\ x.phase = "generating"
       /\ \E reply \in ImageReplies : net' = (net \ {x}) \cup {PostGenerate(x, reply)}
  /\ called' = FALSE
  /\ UNCHANGED <<queue, style, isProcessing, passes, revoked, nextId, trail, styleEdits, apiKey>>

SrvVerify ==
  /\ \E x \in net :
       /\ x.phase = "verifying"
       /\ \E reply \in VerifyReplies : net' = (net \ {x}) \cup {PostVerify(x, reply)}
  /\ called' = FALSE
  /\ UNCHANGED <<queue, style, isProcessing, passes, revoked, nextId, trail, styleEdits, apiKey>>

----------------------------------------------------------------------------
\* Client actions.

\* The await of fetch returns a response: lines 165-194, then the loop on.
FetchResolves ==
  \E p \in passes, x \in net :
    /\ x.pass = p.no
    /\ x.phase = "responded"
    /\ LET failed == ~ok(x.response)
           ups == IF failed THEN FailedUpdates(x.id, ResponseText(x.response))
                  ELSE CompleteUpdates(x.id, x.response.body)
       IN Settle(p, Loop(p, ApplyUpdates(queue, ups), TrailUpdates(trail, queue, ups),
                         ResumeAt(p.snap, p.idx, failed)), {x})
    /\ called' = FALSE
    /\ UNCHANGED <<style, apiKey, nextId, styleEdits>>

\* The await of fetch throws (a transport failure, before a response is there):
\* lines 195-199, then the loop on.
FetchRejects ==
  \E p \in passes, x \in net :
    /\ x.pass = p.no
    /\ x.phase # "responded"
    /\ LET ups == CaughtUpdates(x.id, FetchErrorMessage)
       IN Settle(p, Loop(p, ApplyUpdates(queue, ups), TrailUpdates(trail, queue, ups),
                         ResumeAt(p.snap, p.idx, TRUE)), {x})
    /\ called' = FALSE
    /\ UNCHANGED <<style, apiKey, nextId, styleEdits>>

\* handleFiles(files), files not null.
HandleFilesOf(files) ==
  LET new == mapped(files, nextId)
  IN /\ nextId + Len(new) - 1 <= MaxItems
     /\ queue' = queue \o new
     /\ nextId' = nextId + Len(new)
     /\ trail' = [i \in DOMAIN trail \cup Ids(new) |->
                    IF i \in DOMAIN trail THEN trail[i] ELSE <<"ready">>]
     /\ revoked' = revoked \cup PreviewUrls(queue)
     /\ called' = FALSE
     /\ UNCHANGED <<style, isProcessing, passes, net, apiKey, styleEdits>>

\* A drop or a choice of files in the input.
HandleFiles == \E files \in FileLists : HandleFilesOf(files)

\* The Remove Item button, rendered for an item in error.
RemoveItem ==
  \E i \in DOMAIN queue :
    /\ queue[i].status = "error"
    /\ queue' = RemoveFrom(queue, queue[i].id)
    /\ trail' = [j \in DOMAIN trail \ {queue[i].id} |-> trail[j]]
    /\ revoked' = revoked \cup PreviewUrls(queue)
    /\ called' = FALSE
    /\ UNCHANGED <<style, isProcessing, passes, net, apiKey, nextId, styleEdits>>

\* The Clear Queue button, disabled while isProcessing.
ClearQueue ==
  /\ ~isProcessing
  /\ queue' = <<>>
  /\ isProcessing' = FALSE
  /\ trail' = <<>>
  /\ revoked' = revoked \cup PreviewUrls(queue)
  /\ called' = FALSE
  /\ UNCHANGED <<style, passes, net, apiKey, nextId, styleEdits>>

\* One of setLocation, setLens, setDynamic, setIncludeInteriors, to a new value.
SetStyle ==
  /\ styleEdits < MaxStyleEdits
  /\ \E next \in [location : Locations, lens : lensStyles, dynamic : shotDynamics,
                  includeInteriors : BOOLEAN] :
       /\ Cardinality({k \in DOMAIN style : next[k] # style[k]}) = 1
       /\ style' = next
  /\ styleEdits' = styleEdits + 1
  /\ called' = FALSE
  /\ UNCHANGED <<queue, isProcessing, passes, net, apiKey, revoked, nextId, trail>>

----------------------------------------------------------------------------
\* The workflow: the uploader and the endpoint behind its fetch.

Init ==
  /\ queue = <<>>
  /\ style = InitialStyle
  /\ isProcessing = FALSE
  /\ passes = {}
  /\ net = {}
  /\ apiKey \in BOOLEAN
  /\ revoked = {}
  /\ nextId = 1
  /\ trail = <<>>
  /\ called = FALSE
  /\ styleEdits = 0

Next ==
  \/ HandleFiles
  \/ RemoveItem
  \/ ClearQueue
  \/ SetStyle
  \/ ProcessQueue
  \/ FetchResolves
  \/ FetchRejects
  \/ SrvAnalyze
  \/ SrvGenerate
  \/ SrvVerify

Spec == Init /\ [][Next]_vars

\* The endpoint alone, posted to directly, one request per run.
DirectPost ==
  /\ net = {}
  /\ \E form \in DirectForms : net' = {NewExchange(0, 0, form)}
  /\ called' = FALSE
  /\ UNCHANGED <<queue, style, isProcessing, passes, revoked, nextId, trail, styleEdits, apiKey>>

SrvAnalyzeAny == \E x \in net : SrvAnalyzeWith(x, TextsFor(x.form))

ServerNext ==
  \/ DirectPost
  \/ SrvAnalyzeAny
  \/ SrvGenerate
  \/ SrvVerify

ServerSpec == Init /\ [][ServerNext]_vars

\* The endpoint takes a step on a request it holds.
SrvSteps ==
  \/ SrvAnalyze
  \/ SrvGenerate
  \/ SrvVerify

\* FetchResolves is enabled: the response of a running pass's request is there.
Responded == \E p \in passes, x \in net : x.pass = p.no /\ x.phase = "responded"

\* Every remote call returns a response in the end (or fails: FetchRejects):
\* the endpoint goes on with a request it holds, and the await of a fetch whose
\* response is there resumes.  The last conjunct is WF_vars(FetchResolves)
\* with ENABLED written out as Responded.
FairSpec ==
  /\ Spec
  /\ WF_vars(SrvSteps)
  /\ ([]<>(~Responded) \/ []<><<FetchResolves>>_vars)

----------------------------------------------------------------------------
\* What the claims speak of.

ItemOf(q, id) == q[CHOOSE i \in DOMAIN q : q[i].id = id]

Last(s) == s[Len(s)]

\* The items of a pass's snapshot its loop does not skip, in order.
Eligible(snap) == SelectSeq(snap, LAMBDA item : item.status # "complete")

StyleOfForm(form) ==
  [location |-> form.location, lens |-> form.lens, dynamic |-> form.dynamic,
   includeInteriors |-> form.includeInteriors]

StyleAsSent(st) == [st EXCEPT !.includeInteriors = BoolString(@)]

\* C1: once an item is in error, no later call of processQueue changes its
\* status or issues a request for it: error is the last status an item is
\* given, and no pass requests an item its snapshot shows in error.
C1_ErrorIsNotRetried ==
  /\ \A id \in DOMAIN trail :
       \A k \in 1..(Len(trail[id]) - 1) : trail[id][k] # "error"
  /\ \A p \in passes :
       \A k \in DOMAIN p.requested :
         ItemOf(p.snap, p.requested[k].id).status # "error"

\* C2: an item has a result if and only if its status is complete.
C2_ResultIffComplete ==
  \A i \in DOMAIN queue : Has(queue[i], "result") <=> queue[i].status = "complete"

C2_Witness ==
  \E i, j \in DOMAIN queue :
    /\ queue[i].status = "complete" /\ Has(queue[i], "result")
    /\ queue[j].status = "error" /\ Has(queue[j], "error")

NonTerminal == {"idle", "ready", "analyzing", "generating", "verifying"}

AllowedTransitions ==
  { <<"ready", "analyzing">>, <<"analyzing", "generating">>,
    <<"generating", "verifying">>, <<"verifying", "complete">> }
  \cup {<<s, "error">> : s \in NonTerminal}

\* C3: every status change of an item is one of ready -> analyzing ->
\* generating -> verifying -> complete or, from a non-terminal status, -> error.
C3_TransitionsInOrder ==
  \A id \in DOMAIN trail :
    \A k \in 1..(Len(trail[id]) - 1) :
      <<trail[id][k], trail[id][k + 1]>> \in AllowedTransitions

\* C4: at most one request is in flight, and a pass issues its requests in
\* the order of the queue: the requests issued so far are those of the first
\* non-complete items of the pass's snapshot, and only the last one issued
\* can still be in flight.
C4_OneRequestInQueueOrder ==
  /\ Cardinality(net) <= 1
  /\ \A p \in passes :
       /\ Len(p.requested) <= Len(Eligible(p.snap))
       /\ \A k \in DOMAIN p.requested :
            /\ p.requested[k].id = Eligible(p.snap)[k].id
            /\ (\E x \in net : x.pass = p.no /\ x.id = p.requested[k].id)
                 => k = Len(p.requested)

\* The second request of a pass is in flight after the user removed or added
\* an item while the pass ran.
C4_Witness ==
  \E p \in passes, x \in net :
    /\ x.pass = p.no
    /\ Len(p.requested) = 2
    /\ x.id = p.requested[2].id
    /\ Ids(queue) # Ids(p.snap)

\* C5: a call of processQueue while a pass runs, or with no idle/ready item,
\* changes neither the queue nor isProcessing and issues no request.
C5_RefusedCallIsNoOp ==
  [][ (called' /\ (isProcessing \/ ~readyForProcessing(queue)))
        => UNCHANGED <<queue, isProcessing, net, passes, trail, revoked>> ]_vars

\* processQueue was called while the server was at work on a request of the
\* running pass.
C5_Witness ==
  /\ called
  /\ isProcessing
  /\ \E p \in passes, x \in net : x.pass = p.no /\ x.phase \notin {"sent"}

\* C6: a pass that started ends, and when it ends every item of its snapshot
\* that was not complete and is still in the queue is complete or in error.
C6_PassRunsToCompletion ==
  /\ isProcessing ~> ~isProcessing
  /\ [][ (isProcessing /\ ~isProcessing')
           => \A p \in passes :
                \A k \in DOMAIN p.snap :
                  (p.snap[k].status # "complete" /\ p.snap[k].id \in Ids(queue'))
                    => ItemOf(queue', p.snap[k].id).status \in {"complete", "error"} ]_vars

\* No pass runs, and of two items that went through one pass the first
\* failed and the second completed.
C6_Witness ==
  /\ ~isProcessing
  /\ passes = {}
  /\ \E i, j \in DOMAIN queue :
       /\ i < j
       /\ trail[queue[i].id] = <<"ready", "analyzing", "error">>
       /\ trail[queue[j].id] =
            <<"ready", "analyzing", "generating", "verifying", "complete">>

\* C7 as stated: every request carries the style the cells hold at the moment
\* its item begins.
C7_RequestCarriesCurrentStyle ==
  \A p \in passes :
    \A k \in DOMAIN p.requested :
      StyleOfForm(p.requested[k].form) = StyleAsSent(p.requested[k].ui)

\* C7, amended: every request of a pass carries the style the cells held when
\* the pass was launched, whatever they hold when its item begins.
C7_RequestCarriesLaunchStyle ==
  \A p \in passes :
    \A k \in DOMAIN p.requested :
      StyleOfForm(p.requested[k].form) = StyleAsSent(p.requested[1].ui)

\* A later item of a pass began after the user had changed the style.
C7_Witness ==
  \E p \in passes :
    \E k \in DOMAIN p.requested : k > 1 /\ p.requested[k].ui # p.requested[1].ui

\* The text of a reply of the stage-1 model holds no parseable object: no
\* "{", no "}", or the span from the first "{" to the last "}" is not JSON.
NoParseableObject(text) ==
  \/ \A i \in DOMAIN text : text[i] # "{"
  \/ \A i \in DOMAIN text : text[i] # "}"
  \/ JsonParse(SubSeq(text, IndexOf(text, "{"), LastIndexOf(text, "}"))).kind = "throw"

\* The stage-1 call of exchange x returned a reply (it did not throw).
Analyzed(x) == x.stage1.kind = "ok"

Rejects(x) ==
  /\ Analyzed(x)
  /\ Truthy(x.analysis, "shouldReject")
  /\ Has(x.analysis, "rejectionReason")

\* The text of an item's error names the reason r.
CarriesReason(text, r) ==
  \E k \in DOMAIN text : k < Len(text) /\ text[k] = "reason:" /\ text[k + 1] = r

\* C8: when the stage-1 analysis rejects with reason R the endpoint answers
\* 422 with R and calls neither generation nor verification, and the item the
\* response comes back to goes to error with R in its error text.
C8_RejectionReachesItem ==
  /\ [](\A x \in net :
          Rejects(x) =>
            /\ x.phase = "responded"
            /\ x.response.status = 422
            /\ Has(x.response.body, "reason")
            /\ x.response.body.reason = x.analysis.rejectionReason
            /\ x.calls = <<"analyze">>)
  /\ [][ \A x \in net \ net' :
           (Rejects(x) /\ x.id \in Ids(queue'))
             => /\ ItemOf(queue', x.id).status = "error"
                /\ Has(ItemOf(queue', x.id), "error")
                /\ CarriesReason(ItemOf(queue', x.id).error, x.analysis.rejectionReason) ]_vars

\* An item is in error with the reason of a rejection in its error text and
\* in its log.
C8_Witness ==
  \E i \in DOMAIN queue :
    /\ queue[i].status = "error"
    /\ CarriesReason(queue[i].error, "trailer visible")
    /\ CarriesReason(Last(queue[i].logs), "trailer visible")

\* C9: a parsed stage-1 analysis that does not reject goes on to generation,
\* with the analysis' texts or the fallbacks in the prompt, whichever of the
\* insights, or the whole bundle, is absent.
C9_AbsentInsightsNeverFail ==
  \A x \in net :
    (Analyzed(x) /\ ~NoParseableObject(extractMessageText(x.stage1))
       /\ ~Truthy(x.analysis, "shouldReject"))
      => /\ Len(x.calls) >= 2 /\ x.calls[2] = "generate"
         /\ ~(x.phase = "responded" /\ x.response.status = 500 /\ x.calls = <<"analyze">>)

\* C10: a stage-1 text with no parseable object gives shouldReject = false and
\* an empty insights bundle, and the endpoint goes on to generation.
C10_MalformedTextProceeds ==
  \A x \in net :
    (Analyzed(x) /\ NoParseableObject(extractMessageText(x.stage1)))
      => /\ Has(x.analysis, "shouldReject") /\ x.analysis.shouldReject = FALSE
         /\ Has(x.analysis, "insights") /\ DOMAIN x.analysis.insights = {}
         /\ Len(x.calls) >= 2 /\ x.calls[2] = "generate"
         /\ x.prompt # <<>>

\* The endpoint answered 200 after a stage-1 text whose only "}" is before
\* its only "{".
C10_Witness ==
  \E x \in net :
    /\ Analyzed(x)
    /\ Has(x.stage1, "text")
    /\ x.stage1.text = <<"}", "x", "{">>
    /\ x.calls = <<"analyze", "generate", "verify">>
    /\ x.phase = "responded"
    /\ x.response.status = 200

\* Exchange y is what the endpoint made of x in a step in which generation
\* (the image call threw, or came back without image data) or verification
\* (the call threw) failed.
StageFails(x, y) ==
  \/ /\ x.phase = "generating"
     /\ \E reply \in ImageReplies :
          /\ reply.kind = "throw" \/ ~Has(reply, "b64_json")
          /\ y = PostGenerate(x, reply)
  \/ /\ x.phase = "verifying"
     /\ \E reply \in VerifyReplies : reply.kind = "throw" /\ y = PostVerify(x, reply)

\* A JSON error body under a failure status.
StructuredError(response) ==
  /\ response.kind = "json"
  /\ Has(response.body, "error")
  /\ response.status >= 500

\* The response of x says that stage 2 or 3 failed.
FailedLate(x) ==
  /\ x.phase = "responded"
  /\ Len(x.calls) >= 2
  /\ ~ok(x.response)

\* C11, the endpoint's half: when generation or verification fails the
\* endpoint answers with a structured error under a generic-failure status,
\* not with a success.
C11_LateFailureIsStructuredError ==
  [][ \A x \in net : \A y \in net' \ net :
        StageFails(x, y) => (y.phase = "responded" /\ StructuredError(y.response)) ]_vars

\* C11, the uploader's half: the item such a response comes back to goes to
\* error, and the pass issues no further request for it.
C11_LateFailureEndsItem ==
  [][ \A x \in net \ net' :
        FailedLate(x) =>
          /\ x.id \in Ids(queue') => ItemOf(queue', x.id).status = "error"
          /\ \A y \in net' : ~(y.pass = x.pass /\ y.id = x.id) ]_vars

\* An item is in error after the image model returned no image data.
C11_Reached ==
  \E i \in DOMAIN queue :
    /\ queue[i].status = "error"
    /\ Has(queue[i], "error")
    /\ queue[i].error = ResponseText(UnhandledResponse)
    /\ trail[queue[i].id] = <<"ready", "analyzing", "error">>

\* The parts of a prompt.
Parts(prompt) == {prompt[i] : i \in DOMAIN prompt}

\* The prompt holds the lexicon's phrase of id `want` and of no other id.
ExactlyPhrase(prompt, lexicon, want) ==
  \A id \in DOMAIN lexicon : (lexicon[id] \in Parts(prompt)) <=> (id = want)

\* The phrase the prompt has to hold for the id a form gives under `name`:
\* that of the id if it is enumerated, that of `fallback` if it is not.
PhraseFor(prompt, lexicon, form, name, fallback) ==
  Has(form, name) =>
    IF form[name] \in DOMAIN lexicon
      THEN ExactlyPhrase(prompt, lexicon, form[name])
      ELSE ExactlyPhrase(prompt, lexicon, fallback)

LocaleIn(prompt, form) ==
  (Has(form, "location") /\ form.location # "") => form.location \in Parts(prompt)

\* C12: the prompt of a request holds the lexicon phrase of exactly the lens
\* id and the dynamic id the caller gave and the caller's locale string; for
\* an id outside the enumerated set it holds the default phrase
\* (wide-immersive, running).
C12_PromptCarriesDirectives ==
  \A x \in net :
    x.prompt # <<>> =>
      /\ PhraseFor(x.prompt, lensLexicon, x.form, "lens", "wide-immersive")
      /\ PhraseFor(x.prompt, dynamicDirectives, x.form, "dynamic", "running")
      /\ LocaleIn(x.prompt, x.form)

\* C12 for the ids that are enumerated or are no name an object literal
\* inherits: the part of C12 the lookup of lines 191-192 does keep.
C12_OwnOrUnknownIds ==
  \A x \in net :
    (x.prompt # <<>>
       /\ (Has(x.form, "lens") => x.form.lens \notin InheritedKeys)
       /\ (Has(x.form, "dynamic") => x.form.dynamic \notin InheritedKeys))
      => /\ PhraseFor(x.prompt, lensLexicon, x.form, "lens", "wide-immersive")
         /\ PhraseFor(x.prompt, dynamicDirectives, x.form, "dynamic", "running")
         /\ LocaleIn(x.prompt, x.form)

\* A prompt was built for action-zoom, harbor and a locale of the caller's,
\* and one for a lens id that no lexicon knows.
C12_Reached ==
  \E x \in net :
    /\ x.prompt # <<>>
    /\ Has(x.form, "lens") /\ Has(x.form, "dynamic") /\ Has(x.form, "location")
    /\ \/ /\ x.form.lens = "action-zoom" /\ x.form.dynamic = "harbor"
          /\ x.form.location # ""
       \/ x.form.lens = "fisheye" /\ x.form.dynamic = "drift"

\* The positions of the files of a list whose declared type is on the
\* allow-list, in the order of the list.
Accepted(files) ==
  SelectSeq([i \in 1..Len(files) |-> i], LAMBDA i : files[i] \in SupportedTypes)

\* The queue after an intake of `files` into `before`: the items of `before`
\* as they were, then one ready item with a log for each accepted file, in
\* order, each with an id of its own.
IntakeAppends(before, after, files) ==
  LET acc == Accepted(files)
      base == Len(before)
  IN /\ Len(after) = base + Len(acc)
     /\ \A i \in 1..base : after[i] = before[i]
     /\ \A k \in 1..Len(acc) :
          /\ after[base + k].status = "ready"
          /\ Len(after[base + k].logs) > 0
          /\ after[base + k].file.type = files[acc[k]]
          /\ after[base + k].id \notin Ids(before)
          /\ \A m \in 1..Len(acc) : after[base + m].id = after[base + k].id => m = k

\* C13: handleFiles on a list of files appends to the end of the queue, in
\* order, exactly one ready item with a non-empty log for each file whose type
\* is on the allow-list and nothing for the other files, and leaves the items
\* that were in the queue as they were.
C13_IntakeAppendsAccepted ==
  [][ \A files \in FileLists :
        HandleFilesOf(files) => IntakeAppends(queue, queue', files) ]_vars

\* An intake put a ready item behind an item a pass had already taken up.
C13_Witness ==
  /\ Len(queue) = 2
  /\ queue[1].status \notin {"ready", "idle"}
  /\ queue[2].status = "ready"
  /\ queue[2].logs = <<LogQueued>>
  /\ trail[queue[2].id] = <<"ready">>

\* The preview handles URL.createObjectURL has given out so far.
Allocated == 1..(nextId - 1)

\* The preview handles of the items in the queue.
Queued == {queue[i].previewUrl : i \in DOMAIN queue}

\* C14: after Clear Queue the queue is empty and the preview handle of every
\* item that was in it is released; after removeItem the handle of the item
\* that was removed is released.  No handle of an item that has left the
\* queue stays unreleased.
C14_LeavingReleasesPreview ==
  /\ [](\A u \in Allocated : u \notin Queued => u \in revoked)
  /\ [][ ClearQueue =>
           /\ queue' = <<>>
           /\ \A i \in DOMAIN queue : queue[i].previewUrl \in revoked' ]_vars
  /\ [][ \A i \in DOMAIN queue :
           queue[i].id \notin Ids(queue') => queue[i].previewUrl \in revoked' ]_vars

\* One item was removed while another stayed, and its handle is released.
C14_Witness ==
  /\ Len(queue) = 1
  /\ queue[1].id = 2
  /\ 1 \in revoked

\* C15: a preview handle is released only when its item leaves the queue:
\* no item in the queue has a preview handle that was revoked.
C15_QueuedPreviewsLive ==
  \A i \in DOMAIN queue : queue[i].previewUrl \notin revoked

====
